---- MODULE Spec2Model ----
(***************************************************************************)
(* Model of mooc-pdf-download (src/src/main.rs, src/src/query_string.rs).   *)
(*                                                                         *)
(* Two stages of the pipeline are modelled as state machines:              *)
(*   - get_pdf_urls: one spawned request task per identifier pair, a       *)
(*     bounded mpsc channel of capacity 5 and the collecting receive loop;  *)
(*   - download: directory creation, one JoinSet task per URL streaming    *)
(*     its body through a BufWriter into a file, and the join loop.        *)
(* SpecResolve runs the first, SpecDownload the second.                    *)
(***************************************************************************)
EXTENDS Integers, Sequences, FiniteSets, Bags, TLC

(***************************************************************************)
(* Bounds of the model and constants of the program                        *)
(***************************************************************************)
\* largest number of identifier pairs handed to get_pdf_urls
NumPairs == 6

\* mpsc::channel(5)
Capacity == 5

None == "None"

(***************************************************************************)
(* What a pair's follow-up request can end in: a transport failure or a    *)
(* non-success status (request.send().await?.error_for_status()?           *)
(* .bytes().await?), a body the textOrigUrl regex does not match, or a     *)
(* body it matches, which yields the captured string.                      *)
(***************************************************************************)
TransportErr == "TransportErr"
NoMatch == "NoMatch"

Match == "Match"
Responses == {TransportErr, NoMatch, Match}

\* The identifier pairs (content_id, section_id) of the course: three units,
\* then the first two again and again, so that ids holds duplicate pairs.
IdAt(k) ==
    LET u == IF k <= 3 THEN k ELSE ((k - 4) % 2) + 1
    IN  <<u, u + 10>>

\* The string the regex captures from the service's answer for a unit when it
\* matches: two absolute URLs and one relative reference.
AbsUrlStrings == {"https://h/a.pdf?download=%2561.pdf", "https://h/b.pdf"}
RelUrlStrings == {"/c.pdf"}
UrlStrings == AbsUrlStrings \cup RelUrlStrings
TextOrigUrl(id) ==
    IF id[1] = 1 THEN "https://h/a.pdf?download=%2561.pdf"
    ELSE IF id[1] = 2 THEN "https://h/b.pdf"
    ELSE "/c.pdf"

\* Url::parse(&url): a string without a scheme is Err(RelativeUrlWithoutBase)
UrlParseOk(s) == s \in AbsUrlStrings

Pairs == 1..NumPairs

(***************************************************************************)
(* query_string.rs: percent and plus decoding of byte strings.  A byte     *)
(* string is a sequence of numbers 0..255.                                 *)
(***************************************************************************)
\* b'%', b'+', b' '
Percent == 37
Plus == 43
Space == 32

\* s.split(|&b| b == b'%'): the items between the separators, at least one
RECURSIVE SplitPercent(_, _)
SplitPercent(s, item) ==
    IF s = <<>> THEN <<item>>
    ELSE IF Head(s) = Percent THEN <<item>> \o SplitPercent(Tail(s), <<>>)
    ELSE SplitPercent(Tail(s), Append(item, Head(s)))

\* a hex_char_to_dec that knows the digits and the upper-case letters only
hex_char_to_decUpperCase(n) ==
    IF n >= 48 /\ n <= 57 THEN n - 48
    ELSE IF n >= 65 /\ n <= 70 THEN n - 65 + 10
    ELSE -1

\* hex_char_to_dec: Option<u8>, -1 standing for None
hex_char_to_dec(n) ==
    IF n >= 48 /\ n <= 57 THEN n - 48
    ELSE IF n >= 65 /\ n <= 70 THEN n - 65 + 10
    ELSE IF n >= 97 /\ n <= 102 THEN n - 97 + 10
    ELSE -1

\* to_digit: Some(hex_char_to_dec(n1)? * 16 + hex_char_to_dec(n2)?)
to_digit(n1, n2) ==
    IF hex_char_to_dec(n1) = -1 \/ hex_char_to_dec(n2) = -1 THEN -1
    ELSE (hex_char_to_dec(n1) * 16 + hex_char_to_dec(n2)) % 256

\* the body of unquote's for loop, for one item after a '%'
UnquoteItem(item) ==
    IF Len(item) = 0 THEN <<Percent>>
    ELSE IF Len(item) = 1 THEN <<Percent>> \o item
    ELSE IF to_digit(item[1], item[2]) # -1
         THEN <<to_digit(item[1], item[2])>> \o SubSeq(item, 3, Len(item))
         ELSE <<Percent>> \o item

RECURSIVE UnquoteItems(_)
UnquoteItems(items) ==
    IF items = <<>> THEN <<>>
    ELSE UnquoteItem(Head(items)) \o UnquoteItems(Tail(items))

\* the Vec<u8> unquote builds before String::from_utf8
UnquoteBytes(s) ==
    LET items == SplitPercent(s, <<>>)
    IN  Head(items) \o UnquoteItems(Tail(items))

\* a continuation byte of a UTF-8 encoding, 0x80..0xBF
IsContinuation(b) == b >= 128 /\ b <= 191

\* String::from_utf8 succeeds: the bytes are well-formed UTF-8 (one byte below
\* 0x80; 0xC2..0xDF and one continuation; 0xE0..0xEF and two, without
\* overlong forms and surrogates; 0xF0..0xF4 and three, up to U+10FFFF)
RECURSIVE FromUtf8Ok(_)
FromUtf8Ok(s) ==
    IF s = <<>> THEN TRUE
    ELSE LET b == s[1]
             n == Len(s)
         IN  IF b < 128 THEN FromUtf8Ok(Tail(s))
             ELSE IF b >= 194 /\ b <= 223
                  THEN /\ n >= 2
                       /\ IsContinuation(s[2])
                       /\ FromUtf8Ok(SubSeq(s, 3, n))
             ELSE IF b >= 224 /\ b <= 239
                  THEN /\ n >= 3
                       /\ s[2] >= (IF b = 224 THEN 160 ELSE 128)
                       /\ s[2] <= (IF b = 237 THEN 159 ELSE 191)
                       /\ IsContinuation(s[3])
                       /\ FromUtf8Ok(SubSeq(s, 4, n))
             ELSE IF b >= 240 /\ b <= 244
                  THEN /\ n >= 4
                       /\ s[2] >= (IF b = 240 THEN 144 ELSE 128)
                       /\ s[2] <= (IF b = 244 THEN 143 ELSE 191)
                       /\ IsContinuation(s[3])
                       /\ IsContinuation(s[4])
                       /\ FromUtf8Ok(SubSeq(s, 5, n))
             ELSE FALSE

\* An Option or Result value: <<v>> is Some(v) or Ok(v), <<>> is None or Err
Some(v) == <<v>>
Nothing == <<>>

\* unquote: Result<String, FromUtf8Error>
unquote(s) == IF FromUtf8Ok(UnquoteBytes(s)) THEN Some(UnquoteBytes(s)) ELSE Nothing

\* unquote_plus: b'+' => b' ', then unquote
unquote_plus(s) ==
    unquote([k \in 1..Len(s) |-> IF s[k] = Plus THEN Space ELSE s[k]])

(***************************************************************************)
(* download                                                                *)
(***************************************************************************)
\* largest number of URLs handed to download
MaxUrls == 2
\* largest number of chunks the responses of one call deliver in total
MaxChunks == 2
\* BufWriter::new: the default capacity of the buffer (8 KiB), counted in
\* blocks of bytes; the lengths of the chunks are counted in the same blocks,
\* one below the capacity and one that reaches it
BufCap == 3
ChunkLens == {2, 3}

\* The URLs handed to download, and the value url.query_pairs() yields for
\* the key download (form-urlencoded decoding already applied), Nothing when
\* the query has no such key:
\*   ?download=%2561.pdf -> %61.pdf    ?download=c+d -> c d
\*   ?download=%25FF     -> %FF
DlUrls == {"https://h/a.pdf?download=%2561.pdf", "https://h/b.pdf",
           "https://h/c.pdf?download=c+d", "https://h/e.pdf?download=%25FF"}

QueryPairsDownload(url) ==
    IF url = "https://h/a.pdf?download=%2561.pdf"
         THEN Some(<<37, 54, 49, 46, 112, 100, 102>>)
    ELSE IF url = "https://h/c.pdf?download=c+d" THEN Some(<<99, 32, 100>>)
    ELSE IF url = "https://h/e.pdf?download=%25FF" THEN Some(<<37, 70, 70>>)
    ELSE Nothing

\* url.query_pairs().find(|(k, _)| k == "download")
\*    .and_then(|(_, v)| unquote_plus(v.as_bytes()).ok())
file_name(url) ==
    IF QueryPairsDownload(url) = Nothing THEN Nothing
    ELSE unquote_plus(QueryPairsDownload(url)[1])

\* the names of the files download can create
FileNames == {file_name(u)[1] : u \in {v \in DlUrls : file_name(v) # Nothing}}

UrlIdx == 1..MaxUrls

\* what the file system holds for a name that was never created
NoFile == <<"NoFile">>


VARIABLES
    nIds,   \* ids.len()
    i,      \* 1-based position of the for loop over ids
    rpc,    \* get_pdf_urls: "idle" | "loop" | "recv" | "returned"
    result, \* its eyre::Result: None | "Ok" | "SystemTimeError" | "ParseError"
    tx,     \* get_pdf_urls still holds its own Sender
    rx,     \* the Receiver is alive
    task,   \* per pair: "unspawned" | "requesting" | "sending" | "ok" | "reqerr" | "senderr"
    turl,   \* per pair: the string its response's regex captured, or None
    chan,   \* messages buffered in the mpsc channel
    urls    \* the Vec<Url> of get_pdf_urls

rvars == <<nIds, i, rpc, result, tx, rx, task, turl, chan, urls>>

VARIABLES
    dlUrls,     \* the urls handed to download, in iteration order
    j,          \* 1-based position of the for loop over urls
    dpc,        \* download: "idle" | "create_dir" | "loop" | "join" | "returned"
    dresult,    \* its eyre::Result: None | "Ok" | "IoError" | "NoFilename"
    dirExists,  \* the destination directory exists
    dtask,      \* per URL: "unspawned" | "get" | "create" | "stream" | "done"
                \*          | "failed" | "aborted"
    received,   \* per task: the lengths of the chunks response.chunk() gave
    buf,        \* per task: the bytes held by its BufWriter
    pos,        \* per task: the write position of its File
    files,      \* per file name: the file's bytes, or NoFile
    joined,     \* the tasks join_next() has returned
    errors,     \* the Vec errors of download: the tasks whose error it holds
    failedAt    \* per task: the `?` that ended it, None | "get" | "create"
                \*           | "stream"

dvars == <<dlUrls, j, dpc, dresult, dirExists, dtask, received, buf, pos,
           files, joined, errors, failedAt>>

VARIABLES
    qpc,        \* a call of query_string: "idle" | "called" | "returned"
    qfn,        \* the function called: None | "unquote" | "unquote_plus"
    qs,         \* its argument, a byte string
    qret        \* its Result: Some(bytes) for Ok, Nothing for Err

fvars == <<qpc, qfn, qs, qret>>

VARIABLES
    mpc,        \* main: "idle" | "get_course_info" | "get_ids"
                \*       | "get_pdf_urls" | "download" | "done" | "failed"
                \*       | "panicked"
    stmts,      \* the statements the service's answer is made of
    course_info,\* the Bytes get_course_info returned
    ids,        \* the Vec get_ids returned: Some(pairs), Nothing before
    mresult     \* what main returned: None | "Ok" | "FetchError"
                \*                     | "ResolveError" | "DownloadError"

mvars == <<mpc, stmts, course_info, ids, mresult>>

vars == <<rvars, dvars, fvars, mvars>>

\* get_pdf_urls is not running
ResolveIdle ==
    /\ nIds = 0
    /\ i = 1
    /\ rpc = "idle"
    /\ result = None
    /\ tx = FALSE
    /\ rx = FALSE
    /\ task = [t \in Pairs |-> "unspawned"]
    /\ turl = [t \in Pairs |-> None]
    /\ chan = <<>>
    /\ urls = <<>>

\* download is not running
DownloadIdle ==
    /\ dlUrls = <<>>
    /\ j = 1
    /\ dpc = "idle"
    /\ dresult = None
    /\ dirExists = FALSE
    /\ dtask = [k \in UrlIdx |-> "unspawned"]
    /\ received = [k \in UrlIdx |-> <<>>]
    /\ buf = [k \in UrlIdx |-> <<>>]
    /\ pos = [k \in UrlIdx |-> 0]
    /\ files = [f \in FileNames |-> NoFile]
    /\ joined = {}
    /\ errors = <<>>
    /\ failedAt = [k \in UrlIdx |-> None]

\* no function of query_string is being applied
QueryIdle ==
    /\ qpc = "idle"
    /\ qfn = None
    /\ qs = <<>>
    /\ qret = <<>>

\* main is not running
MainIdle ==
    /\ mpc = "idle"
    /\ stmts = <<>>
    /\ course_info = <<>>
    /\ ids = <<>>
    /\ mresult = None

\* a task holds its clone of tx from spawn until it terminates
Running(t) == task[t] \in {"requesting", "sending"}
Terminated(t) == task[t] \in {"ok", "reqerr", "senderr"}
Outstanding == {t \in Pairs : Running(t)}

InitResolve ==
    /\ nIds \in 0..NumPairs
    /\ i = 1
    /\ rpc = "loop"
    /\ result = None
    /\ tx = TRUE
    /\ rx = TRUE
    /\ task = [t \in Pairs |-> "unspawned"]
    /\ turl = [t \in Pairs |-> None]
    /\ chan = <<>>
    /\ urls = <<>>
    /\ DownloadIdle
    /\ QueryIdle
    /\ MainIdle

\* for (content_id, section_id) in ids { ...; spawn(async move {..}); }
\* Nothing limits the number of spawned tasks.
SpawnBeyondIds ==
    /\ rpc = "loop"
    /\ i <= nIds + 1
    /\ i <= NumPairs
    /\ task' = [task EXCEPT ![i] = "requesting"]
    /\ i' = i + 1
    /\ UNCHANGED <<nIds, rpc, result, tx, rx, turl, chan, urls>>
    /\ UNCHANGED <<dvars, fvars, mvars>>

Spawn ==
    /\ rpc = "loop"
    /\ i <= nIds
    /\ task' = [task EXCEPT ![i] = "requesting"]
    /\ i' = i + 1
    /\ UNCHANGED <<nIds, rpc, result, tx, rx, turl, chan, urls>>
    /\ UNCHANGED <<dvars, fvars, mvars>>

\* SystemTime::now().duration_since(UNIX_EPOCH)? fails while building a form:
\* get_pdf_urls returns the error; tx, rx and the buffered messages are dropped
SpawnClockErr ==
    /\ rpc = "loop"
    /\ i <= nIds
    /\ rpc' = "returned"
    /\ result' = "SystemTimeError"
    /\ tx' = FALSE
    /\ rx' = FALSE
    /\ chan' = <<>>
    /\ urls' = <<>>
    /\ UNCHANGED <<nIds, i, task, turl>>
    /\ UNCHANGED <<dvars, fvars, mvars>>

\* drop(tx) after the loop
DropTxForgotten ==
    /\ rpc = "loop"
    /\ i > nIds
    /\ rpc' = "recv"
    /\ UNCHANGED <<nIds, i, result, tx, rx, task, turl, chan, urls>>
    /\ UNCHANGED <<dvars, fvars, mvars>>

DropTx ==
    /\ rpc = "loop"
    /\ i > nIds
    /\ rpc' = "recv"
    /\ tx' = FALSE
    /\ UNCHANGED <<nIds, i, result, rx, task, turl, chan, urls>>
    /\ UNCHANGED <<dvars, fvars, mvars>>

\* let s = request.send().await?.error_for_status()?.bytes().await?;
\* if let Some(url) = REGEX.captures(&s)... : the task's error goes into its
\* JoinHandle, which spawn's caller has discarded
TaskResponse(t, r) ==
    /\ task[t] = "requesting"
    /\ IF r = TransportErr
         THEN /\ task' = [task EXCEPT ![t] = "reqerr"]
              /\ turl' = turl
         ELSE IF r = NoMatch
         THEN /\ task' = [task EXCEPT ![t] = "ok"]
              /\ turl' = turl
         ELSE /\ task' = [task EXCEPT ![t] = "sending"]
              /\ turl' = [turl EXCEPT ![t] = TextOrigUrl(IdAt(t))]
    /\ UNCHANGED <<nIds, i, rpc, result, tx, rx, chan, urls>>
    /\ UNCHANGED <<dvars, fvars, mvars>>

\* a send on an unbounded channel: it never waits for a permit
TaskSendUnbounded(t) ==
    /\ task[t] = "sending"
    /\ IF ~rx
         THEN /\ task' = [task EXCEPT ![t] = "senderr"]
              /\ chan' = chan
         ELSE /\ chan' = Append(chan, turl[t])
              /\ task' = [task EXCEPT ![t] = "ok"]
    /\ UNCHANGED <<nIds, i, rpc, result, tx, rx, turl, urls>>
    /\ UNCHANGED <<dvars, fvars, mvars>>

\* a send that is not woken when the receiver is dropped: it completes only
\* while the receiver lives and a permit is free
TaskSendNeverReleased(t) ==
    /\ task[t] = "sending"
    /\ rx
    /\ Len(chan) < Capacity
    /\ chan' = Append(chan, turl[t])
    /\ task' = [task EXCEPT ![t] = "ok"]
    /\ UNCHANGED <<nIds, i, rpc, result, tx, rx, turl, urls>>
    /\ UNCHANGED <<dvars, fvars, mvars>>

\* tx.send(url).await?: waits for one of the Capacity permits; Err(SendError)
\* when the receiver is gone
TaskSend(t) ==
    /\ task[t] = "sending"
    /\ IF ~rx
         THEN /\ task' = [task EXCEPT ![t] = "senderr"]
              /\ chan' = chan
         ELSE /\ Len(chan) < Capacity
              /\ chan' = Append(chan, turl[t])
              /\ task' = [task EXCEPT ![t] = "ok"]
    /\ UNCHANGED <<nIds, i, rpc, result, tx, rx, turl, urls>>
    /\ UNCHANGED <<dvars, fvars, mvars>>

\* while let Some(url) = rx.recv().await { urls.push(Url::parse(&url)?); }
RecvKeepsLast ==
    /\ rpc = "recv"
    /\ chan # <<>>
    /\ IF UrlParseOk(Head(chan))
         THEN /\ urls' = <<Head(chan)>>
              /\ chan' = Tail(chan)
              /\ UNCHANGED <<rpc, result, rx>>
         ELSE /\ rpc' = "returned"
              /\ result' = "ParseError"
              /\ rx' = FALSE
              /\ chan' = <<>>
              /\ urls' = <<>>
    /\ UNCHANGED <<nIds, i, tx, task, turl>>
    /\ UNCHANGED <<dvars, fvars, mvars>>

Recv ==
    /\ rpc = "recv"
    /\ chan # <<>>
    /\ IF UrlParseOk(Head(chan))
         THEN /\ urls' = Append(urls, Head(chan))
              /\ chan' = Tail(chan)
              /\ UNCHANGED <<rpc, result, rx>>
         ELSE /\ rpc' = "returned"
              /\ result' = "ParseError"
              /\ rx' = FALSE
              /\ chan' = <<>>
              /\ urls' = <<>>
    /\ UNCHANGED <<nIds, i, tx, task, turl>>
    /\ UNCHANGED <<dvars, fvars, mvars>>

\* rx.recv() is None once the channel is empty and every Sender is dropped;
\* then Ok(urls)
RecvNoneWhenEmpty ==
    /\ rpc = "recv"
    /\ chan = <<>>
    /\ rpc' = "returned"
    /\ result' = "Ok"
    /\ rx' = FALSE
    /\ UNCHANGED <<nIds, i, tx, task, turl, chan, urls>>
    /\ UNCHANGED <<dvars, fvars, mvars>>

RecvNone ==
    /\ rpc = "recv"
    /\ chan = <<>>
    /\ ~tx
    /\ \A t \in Pairs : ~Running(t)
    /\ rpc' = "returned"
    /\ result' = "Ok"
    /\ rx' = FALSE
    /\ UNCHANGED <<nIds, i, tx, task, turl, chan, urls>>
    /\ UNCHANGED <<dvars, fvars, mvars>>

NextResolve ==
    \/ Spawn
    \/ SpawnClockErr
    \/ DropTx
    \/ \E t \in Pairs, r \in Responses : TaskResponse(t, r)
    \/ \E t \in Pairs : TaskSend(t)
    \/ Recv
    \/ RecvNone

SpecResolve == InitResolve /\ [][NextResolve]_vars

\* The steps the runtime and the service owe: the caller and every ready task
\* are polled, and every request terminates.  A clock error is owed by nobody.
ResolveProgress ==
    \/ Spawn
    \/ DropTx
    \/ \E t \in Pairs, r \in Responses : TaskResponse(t, r)
    \/ \E t \in Pairs : TaskSend(t)
    \/ Recv
    \/ RecvNone

\* While one of these steps is possible, one of them is taken.
FairResolve == WF_vars(ResolveProgress)

FairSpecResolve == SpecResolve /\ FairResolve

TypeOKResolve ==
    /\ nIds \in 0..NumPairs
    /\ i \in 1..(NumPairs + 1)
    /\ rpc \in {"idle", "loop", "recv", "returned"}
    /\ result \in {None, "Ok", "SystemTimeError", "ParseError"}
    /\ Len(chan) <= Capacity

(***************************************************************************)
(* Claims about get_pdf_urls                                               *)
(***************************************************************************)
Returned == rpc = "returned"

\* the captured strings of the tasks whose response matched, as a bag
RECURSIVE MatchedBag(_)
MatchedBag(n) ==
    IF n = 0 THEN EmptyBag
    ELSE IF turl[n] # None THEN MatchedBag(n - 1) (+) SetToBag({turl[n]})
    ELSE MatchedBag(n - 1)

RECURSIVE SeqToBag(_)
SeqToBag(s) ==
    IF s = <<>> THEN EmptyBag ELSE SetToBag({Head(s)}) (+) SeqToBag(Tail(s))

\* C1 as stated: in no reachable state are more than 5 pair-resolution
\* requests outstanding (spawned and not yet terminated).
C1_AtMostFiveOutstanding == Cardinality(Outstanding) <= Capacity

\* C1 amended: the outstanding requests are bounded by the number of pairs
\* only: each belongs to one of the nIds pairs, at most one per pair.
C1_OutstandingWithinIds ==
    /\ Outstanding \subseteq 1..nIds
    /\ Cardinality(Outstanding) <= nIds

\* more requests outstanding than the channel has slots
C1_Witness == Cardinality(Outstanding) > Capacity

\* C2: when a pair's request ended in a transport failure or a non-success
\* status, get_pdf_urls does not return Ok as it does for a mere non-match.
C2_RequestErrorReported ==
    (Returned /\ \E t \in Pairs : task[t] = "reqerr") => result # "Ok"

\* C5 as stated: once get_pdf_urls has returned from its receive loop, with
\* success or with an error, no spawned task is running and the channel
\* holds nothing.
C5_ReturnedImpliesAllTerminated ==
    (Returned /\ result # "SystemTimeError") =>
        /\ \A t \in Pairs : ~Running(t)
        /\ chan = <<>>

\* C5 amended: once get_pdf_urls has returned Ok, every pair's task was
\* spawned and has terminated, and the channel holds nothing.
C5_OkImpliesAllTerminated ==
    (Returned /\ result = "Ok") =>
        /\ \A t \in 1..nIds : Terminated(t)
        /\ chan = <<>>

\* returned Ok after tasks handed URLs over and another failed
C5_Witness ==
    /\ Returned /\ result = "Ok"
    /\ Len(urls) >= 2
    /\ \E t \in Pairs : task[t] = "reqerr"

\* C9: when no request fails, no form fails to build and every captured
\* string parses, get_pdf_urls returns Ok with exactly the captured strings
\* of the matching pairs, as a multiset; a non-matching pair adds nothing
\* and is no error.
C9_ReturnsMatchedUrls ==
    ( /\ Returned
      /\ result # "SystemTimeError"
      /\ \A t \in Pairs : task[t] # "reqerr"
      /\ \A t \in Pairs : turl[t] # None => UrlParseOk(turl[t]) )
    => /\ result = "Ok"
       /\ SeqToBag(urls) = MatchedBag(NumPairs)
       /\ \A t \in 1..nIds : task[t] = "ok"

\* five pairs matched, two of them twice the same URL, one pair did not
C9_Witness ==
    /\ Returned /\ result = "Ok"
    /\ Len(urls) = 5
    /\ \E t \in Pairs : task[t] = "ok" /\ turl[t] = None
    /\ \A t \in Pairs : task[t] # "reqerr"

\* C10: if every request terminates, get_pdf_urls eventually returns.
C10_EventuallyReturns == <>Returned

\* the channel is full and a further task waits to hand its URL over
C10_Witness ==
    /\ Len(chan) = Capacity
    /\ \E t \in Pairs : task[t] = "sending"
    /\ rpc = "recv"

\* the tasks whose tx.send(url) returned Ok
Enqueued == {t \in Pairs : task[t] = "ok" /\ turl[t] # None}

\* C17: the channel never holds more than Capacity = 5 undelivered URLs, so a
\* task with a URL to hand over waits while 5 are buffered; and each task
\* enqueues at most one URL: while the receiver lives, the URLs buffered and
\* the URLs collected are together exactly one per task whose send returned.
C17_ChannelHoldsAtMostFive ==
    /\ Len(chan) <= Capacity
    /\ rx => Len(chan) + Len(urls) = Cardinality(Enqueued)

\* five URLs are buffered while the loop still spawns, and a sixth task waits
C17_Witness ==
    /\ Len(chan) = Capacity
    /\ tx
    /\ \E t \in Pairs : task[t] = "sending"

\* C18: no task stays in its send for ever, also after get_pdf_urls returned
\* early and dropped the receiver (the send then returns the SendError): from
\* some point on every spawned task whose request has ended is terminated.
\* A task leaves its send only by terminating, so this says that each sender
\* terminates.
C18_SenderTerminates ==
    <>[](\A t \in Pairs : task[t] # "sending")

\* get_pdf_urls returned the parse error and a sender was released by the
\* SendError
C18_Witness ==
    /\ result = "ParseError"
    /\ \E t \in Pairs : task[t] = "senderr"

\* path.join(&file_name) of the k-th URL
PathOf(k) == file_name(dlUrls[k])[1]

\* the bytes of the c-th chunk of task k, len blocks long
ChunkData(k, c, len) == [b \in 1..len |-> <<k, c>>]

\* the bytes of the chunks of lengths lens, in order, numbered from c
RECURSIVE BodyFrom(_, _, _)
BodyFrom(k, c, lens) ==
    IF lens = <<>> THEN <<>>
    ELSE ChunkData(k, c, Head(lens)) \o BodyFrom(k, c + 1, Tail(lens))

\* the whole body task k has received
Body(k) == BodyFrom(k, 1, received[k])

\* the number of chunks received by the tasks 1..n
RECURSIVE ChunksReceived(_)
ChunksReceived(n) ==
    IF n = 0 THEN 0 ELSE Len(received[n]) + ChunksReceived(n - 1)

\* a hole of a sparse file
Hole == <<0, 0>>

\* a write of data at position at into a file of content c
WriteAt(c, at, data) ==
    LET n == IF Len(c) > at + Len(data) THEN Len(c) ELSE at + Len(data)
    IN  [b \in 1..n |->
            IF b > at /\ b <= at + Len(data) THEN data[b - at]
            ELSE IF b <= Len(c) THEN c[b]
            ELSE Hole]

TaskLive(k) == dtask[k] \in {"get", "create", "stream"}
TaskEnded(k) == dtask[k] \in {"done", "failed"}

\* dropping the JoinSet aborts every task that has not ended; an aborted
\* task's BufWriter and File are dropped where the task stands
AbortAll(st) == [k \in UrlIdx |-> IF TaskLive(k) THEN "aborted" ELSE st[k]]

RECURSIVE SeqsUpTo(_, _)
SeqsUpTo(S, n) ==
    IF n = 0 THEN {<<>>}
    ELSE SeqsUpTo(S, n - 1) \cup
         {Append(q, x) : q \in {r \in SeqsUpTo(S, n - 1) : Len(r) = n - 1}, x \in S}

InitDownload ==
    /\ dlUrls \in SeqsUpTo(DlUrls, MaxUrls)
    /\ j = 1
    /\ dpc = "create_dir"
    /\ dresult = None
    /\ dirExists \in BOOLEAN
    /\ dtask = [k \in UrlIdx |-> "unspawned"]
    /\ received = [k \in UrlIdx |-> <<>>]
    /\ buf = [k \in UrlIdx |-> <<>>]
    /\ pos = [k \in UrlIdx |-> 0]
    /\ files = [f \in FileNames |-> NoFile]
    /\ joined = {}
    /\ errors = <<>>
    /\ failedAt = [k \in UrlIdx |-> None]
    /\ ResolveIdle
    /\ QueryIdle
    /\ MainIdle

\* create_dir_all whose error is not propagated: the loop is entered whether
\* or not the directory was made
CreateDirAllUnchecked(ok) ==
    /\ dpc = "create_dir"
    /\ dirExists' = (dirExists \/ ok)
    /\ dpc' = "loop"
    /\ UNCHANGED <<dlUrls, failedAt, j, dresult, dtask, received, buf, pos, files,
                   joined, errors>>
    /\ UNCHANGED <<rvars, fvars, mvars>>

\* create_dir_all(&path).await?
CreateDirAll(ok) ==
    /\ dpc = "create_dir"
    /\ IF ok
         THEN /\ dirExists' = TRUE
              /\ dpc' = "loop"
              /\ dresult' = dresult
         ELSE /\ dirExists' = dirExists
              /\ dpc' = "returned"
              /\ dresult' = "IoError"
    /\ UNCHANGED <<dlUrls, failedAt, j, dtask, received, buf, pos, files, joined,
                   errors>>
    /\ UNCHANGED <<rvars, fvars, mvars>>

\* one iteration of the for loop: the file name, `?` on its absence, then
\* join_set.spawn(..)
Launch ==
    /\ dpc = "loop"
    /\ j <= Len(dlUrls)
    /\ IF file_name(dlUrls[j]) = Nothing
         THEN /\ dpc' = "returned"
              /\ dresult' = "NoFilename"
              /\ dtask' = AbortAll(dtask)
              /\ buf' = [k \in UrlIdx |-> <<>>]
              /\ pos' = [k \in UrlIdx |-> 0]
              /\ j' = j
         ELSE /\ dtask' = [dtask EXCEPT ![j] = "get"]
              /\ j' = j + 1
              /\ UNCHANGED <<dpc, dresult, buf, pos>>
    /\ UNCHANGED <<dlUrls, failedAt, dirExists, received, files, joined, errors>>
    /\ UNCHANGED <<rvars, fvars, mvars>>

\* the loop is over: let mut errors = Vec::new(); and the join loop begins
LoopEnd ==
    /\ dpc = "loop"
    /\ j > Len(dlUrls)
    /\ dpc' = "join"
    /\ UNCHANGED <<dlUrls, failedAt, j, dresult, dirExists, dtask, received, buf, pos,
                   files, joined, errors>>
    /\ UNCHANGED <<rvars, fvars, mvars>>

\* a task body that creates its file first and sends the GET afterwards
GetAfterCreate(k, ok) ==
    /\ dtask[k] = "get"
    /\ files' = [files EXCEPT ![PathOf(k)] = <<>>]
    /\ dtask' = [dtask EXCEPT ![k] = IF ok THEN "create" ELSE "failed"]
    /\ failedAt' = [failedAt EXCEPT ![k] = IF ok THEN @ ELSE "get"]
    /\ UNCHANGED <<dlUrls, j, dpc, dresult, dirExists, received, buf, pos,
                   joined, errors>>
    /\ UNCHANGED <<rvars, fvars, mvars>>

\* client.get(url).send().await?.error_for_status()?
Get(k, ok) ==
    /\ dtask[k] = "get"
    /\ dtask' = [dtask EXCEPT ![k] = IF ok THEN "create" ELSE "failed"]
    /\ failedAt' = [failedAt EXCEPT ![k] = IF ok THEN @ ELSE "get"]
    /\ UNCHANGED <<dlUrls, j, dpc, dresult, dirExists, received, buf, pos,
                   files, joined, errors>>
    /\ UNCHANGED <<rvars, fvars, mvars>>

\* BufWriter::new(File::create(path).await?): creates the file or truncates
\* it; File::create does not create the directory of the path
FileCreate(k, ok) ==
    /\ dtask[k] = "create"
    /\ ok => dirExists
    /\ IF ok
         THEN /\ files' = [files EXCEPT ![PathOf(k)] = <<>>]
              /\ dtask' = [dtask EXCEPT ![k] = "stream"]
              /\ failedAt' = failedAt
         ELSE /\ files' = files
              /\ dtask' = [dtask EXCEPT ![k] = "failed"]
              /\ failedAt' = [failedAt EXCEPT ![k] = "create"]
    /\ UNCHANGED <<dlUrls, j, dpc, dresult, dirExists, received, buf, pos,
                   joined, errors>>
    /\ UNCHANGED <<rvars, fvars, mvars>>

\* response.chunk().await? gives Some(chunk); file.write_all(&chunk).await?
\* BufWriter: when the chunk does not fit behind the buffered bytes, the
\* buffer is written out first; a chunk of at least the capacity goes to the
\* file directly, a smaller one into the buffer.
Chunk(k, len) ==
    /\ dtask[k] = "stream"
    /\ ChunksReceived(MaxUrls) < MaxChunks
    /\ LET data == ChunkData(k, Len(received[k]) + 1, len)
           flush == Len(buf[k]) + len > BufCap
           f1 == IF flush THEN WriteAt(files[PathOf(k)], pos[k], buf[k])
                 ELSE files[PathOf(k)]
           p1 == IF flush THEN pos[k] + Len(buf[k]) ELSE pos[k]
           b1 == IF flush THEN <<>> ELSE buf[k]
       IN  /\ received' = [received EXCEPT ![k] = Append(@, len)]
           /\ IF len >= BufCap
                THEN /\ files' = [files EXCEPT ![PathOf(k)] = WriteAt(f1, p1, data)]
                     /\ pos' = [pos EXCEPT ![k] = p1 + len]
                     /\ buf' = [buf EXCEPT ![k] = b1]
                ELSE /\ files' = [files EXCEPT ![PathOf(k)] = f1]
                     /\ pos' = [pos EXCEPT ![k] = p1]
                     /\ buf' = [buf EXCEPT ![k] = b1 \o data]
    /\ UNCHANGED <<dlUrls, failedAt, j, dpc, dresult, dirExists, dtask, joined, errors>>
    /\ UNCHANGED <<rvars, fvars, mvars>>

\* response.chunk().await? or file.write_all(&chunk).await? is an error: the
\* task ends with it, its BufWriter is dropped with what it holds
StreamErr(k) ==
    /\ dtask[k] = "stream"
    /\ dtask' = [dtask EXCEPT ![k] = "failed"]
    /\ failedAt' = [failedAt EXCEPT ![k] = "stream"]
    /\ buf' = [buf EXCEPT ![k] = <<>>]
    /\ pos' = [pos EXCEPT ![k] = 0]
    /\ UNCHANGED <<dlUrls, j, dpc, dresult, dirExists, received, files,
                   joined, errors>>
    /\ UNCHANGED <<rvars, fvars, mvars>>

\* response.chunk() gives None: eyre::Ok(()); file is dropped without a
\* flush, and a dropped tokio BufWriter discards the bytes it holds
StreamEnd(k) ==
    /\ dtask[k] = "stream"
    /\ dtask' = [dtask EXCEPT ![k] = "done"]
    /\ buf' = [buf EXCEPT ![k] = <<>>]
    /\ pos' = [pos EXCEPT ![k] = 0]
    /\ UNCHANGED <<dlUrls, failedAt, j, dpc, dresult, dirExists, received, files,
                   joined, errors>>
    /\ UNCHANGED <<rvars, fvars, mvars>>

\* a task's error ends the join loop at once and the JoinSet is dropped
JoinNextFailFast(k) ==
    /\ dpc = "join"
    /\ k \notin joined
    /\ TaskEnded(k)
    /\ joined' = joined \cup {k}
    /\ IF dtask[k] = "failed"
         THEN /\ errors' = Append(errors, k)
              /\ dpc' = "returned"
              /\ dresult' = "TaskError"
              /\ dtask' = AbortAll(dtask)
         ELSE UNCHANGED <<errors, dpc, dresult, dtask>>
    /\ UNCHANGED <<dlUrls, failedAt, j, dirExists, received, buf, pos, files>>
    /\ UNCHANGED <<rvars, fvars, mvars>>

\* while let Some(res) = join_set.join_next().await { match res {
\*     Ok(Err(e)) => errors.push(e), Err(e) => errors.push(e.into()), _ => {} } }
\* (no task panics and none is aborted while the loop runs, so no JoinError)
JoinNext(k) ==
    /\ dpc = "join"
    /\ k \notin joined
    /\ TaskEnded(k)
    /\ joined' = joined \cup {k}
    /\ errors' = IF dtask[k] = "failed" THEN Append(errors, k) ELSE errors
    /\ UNCHANGED <<dlUrls, failedAt, j, dpc, dresult, dirExists, dtask, received, buf,
                   pos, files>>
    /\ UNCHANGED <<rvars, fvars, mvars>>

\* join_next() gives None: the set is empty; Ok(()), and errors is dropped
JoinDone ==
    /\ dpc = "join"
    /\ \A k \in 1..Len(dlUrls) : k \in joined
    /\ dpc' = "returned"
    /\ dresult' = "Ok"
    /\ UNCHANGED <<dlUrls, failedAt, j, dirExists, dtask, received, buf, pos, files,
                   joined, errors>>
    /\ UNCHANGED <<rvars, fvars, mvars>>

NextDownload ==
    \/ \E ok \in BOOLEAN : CreateDirAll(ok)
    \/ Launch
    \/ LoopEnd
    \/ \E k \in UrlIdx, ok \in BOOLEAN : Get(k, ok)
    \/ \E k \in UrlIdx, ok \in BOOLEAN : FileCreate(k, ok)
    \/ \E k \in UrlIdx, len \in ChunkLens : Chunk(k, len)
    \/ \E k \in UrlIdx : StreamErr(k)
    \/ \E k \in UrlIdx : StreamEnd(k)
    \/ \E k \in UrlIdx : JoinNext(k)
    \/ JoinDone

SpecDownload == InitDownload /\ [][NextDownload]_vars

TypeOKDownload ==
    /\ dpc \in {"idle", "create_dir", "loop", "join", "returned"}
    /\ j \in 1..(MaxUrls + 1)
    /\ \A k \in UrlIdx : Len(buf[k]) <= BufCap
    /\ joined \subseteq UrlIdx

(***************************************************************************)
(* Claims about download                                                   *)
(***************************************************************************)
DReturned == dpc = "returned"

Named(k) == file_name(dlUrls[k]) # Nothing
AllNamed == \A k \in 1..Len(dlUrls) : Named(k)

\* C3: when exactly one URL of the set yields no file name, a task is
\* launched and runs to its end for every other URL, wherever the malformed
\* URL sits.
C3_OnlyMalformedFails ==
    ( /\ DReturned
      /\ dresult # "IoError"
      /\ Cardinality({k \in 1..Len(dlUrls) : ~Named(k)}) = 1 )
    => \A k \in 1..Len(dlUrls) : Named(k) => TaskEnded(k)

\* C4: whenever a download task failed, the value download returns signals
\* failure.
C4_FailuresReturned ==
    (DReturned /\ \E k \in UrlIdx : dtask[k] = "failed") => dresult # "Ok"

\* C6: when every URL has a decodable file name, no task is ever aborted or
\* skipped, whatever its siblings end in, and download returns (the
\* directory created) only after every task was launched, has ended with
\* its stream read to the end or with its own error, and was joined.
C6_SiblingsRunToEnd ==
    AllNamed =>
        /\ \A k \in UrlIdx : dtask[k] # "aborted"
        /\ (DReturned /\ dresult # "IoError") =>
               \A k \in 1..Len(dlUrls) : TaskEnded(k) /\ k \in joined

\* download has returned; one task failed and a sibling read its whole
\* two-chunk body
C6_Witness ==
    /\ DReturned
    /\ AllNamed
    /\ \E k1, k2 \in 1..Len(dlUrls) :
          /\ dtask[k1] = "failed"
          /\ dtask[k2] = "done"
          /\ Len(received[k2]) >= 2

\* C7: when a download task has ended successfully, its destination file
\* holds the bytes of all chunks it received, in the order of receipt.
C7_FileEqualsBody ==
    \A k \in 1..Len(dlUrls) :
        dtask[k] = "done" => files[PathOf(k)] = Body(k)

\* C8: no two tasks of one call have the same destination file open.
C8_NoSharedPath ==
    \A k1, k2 \in 1..Len(dlUrls) :
        (k1 # k2 /\ dtask[k1] = "stream" /\ dtask[k2] = "stream")
            => PathOf(k1) # PathOf(k2)
\* C14: in download the destination directory is made before any task is
\* launched: whenever a task has been launched (so whenever one has sent its
\* GET or created its file) create_dir_all has finished and the directory
\* exists, and when create_dir_all failed no task was launched and no file was
\* touched.
C14_DirBeforeTasks ==
    /\ (\E k \in UrlIdx : dtask[k] # "unspawned")
          => (dpc # "create_dir" /\ dirExists)
    /\ dresult = "IoError"
          => /\ \A k \in UrlIdx : dtask[k] = "unspawned"
             /\ \A f \in FileNames : files[f] = NoFile

C14_Witness ==
    \E k \in UrlIdx :
        /\ dtask[k] = "stream"
        /\ files[PathOf(k)] # NoFile
        /\ dirExists

\* C19: a download task whose GET fails (no response, or a status that
\* error_for_status rejects) leaves every file as it was: the step that ends
\* the task at its GET neither creates nor truncates a file.
C19_FailedGetKeepsFiles ==
    [][\A k \in UrlIdx :
          (dtask[k] = "get" /\ dtask'[k] = "failed") => files' = files]_vars

C19_Witness ==
    \E k \in UrlIdx :
        /\ failedAt[k] = "get"
        /\ dtask[k] = "failed"
        /\ files[PathOf(k)] = NoFile

(***************************************************************************)
(* query_string: unquote and unquote_plus applied to byte strings          *)
(***************************************************************************)
\* longest argument
MaxLen == 6

\* the bytes of the arguments: b'%', b'+', and the hex digits b'2', b'B',
\* b'c', which make escapes of ASCII bytes (%22, %2B, %2c), of bytes that
\* are no UTF-8 alone (%B2, %c2) and of a two-byte encoding (%c2%B2)
QueryBytes == {37, 43, 50, 66, 99}
QueryStrings == UNION {[1..n -> QueryBytes] : n \in 0..MaxLen}

InitQuery ==
    /\ qpc = "called"
    /\ qfn \in {"unquote", "unquote_plus"}
    /\ qs \in QueryStrings
    /\ qret = Nothing
    /\ ResolveIdle
    /\ DownloadIdle
    /\ MainIdle

\* pub fn unquote
CallUnquote ==
    /\ qpc = "called"
    /\ qfn = "unquote"
    /\ qret' = unquote(qs)
    /\ qpc' = "returned"
    /\ UNCHANGED <<qfn, qs>>
    /\ UNCHANGED <<rvars, dvars, mvars>>

\* pub fn unquote_plus
CallUnquotePlus ==
    /\ qpc = "called"
    /\ qfn = "unquote_plus"
    /\ qret' = unquote_plus(qs)
    /\ qpc' = "returned"
    /\ UNCHANGED <<qfn, qs>>
    /\ UNCHANGED <<rvars, dvars, mvars>>

NextQuery ==
    \/ CallUnquote
    \/ CallUnquotePlus

SpecQuery == InitQuery /\ [][NextQuery]_vars

(***************************************************************************)
(* Claims about query_string                                              *)
(***************************************************************************)
\* the value of a hexadecimal digit byte of either case, -1 for another byte
HexValue(b) ==
    IF b \in 48..57 THEN b - 48
    ELSE IF b \in 65..70 THEN b - 55
    ELSE IF b \in 97..102 THEN b - 87
    ELSE -1

\* percent-decoding read from left to right: a '%' followed by two hex
\* digits is the byte 16 * X + Y, every other byte stands for itself
RECURSIVE PercentDecoded(_)
PercentDecoded(s) ==
    IF s = <<>> THEN <<>>
    ELSE IF /\ Head(s) = Percent
            /\ Len(s) >= 3
            /\ HexValue(s[2]) # -1
            /\ HexValue(s[3]) # -1
         THEN <<16 * HexValue(s[2]) + HexValue(s[3])>>
                  \o PercentDecoded(SubSeq(s, 4, Len(s)))
         ELSE <<Head(s)>> \o PercentDecoded(Tail(s))

PlusToSpace(s) == [k \in 1..Len(s) |-> IF s[k] = Plus THEN Space ELSE s[k]]

\* what the call is to decode: the argument, after '+' became ' ' for
\* unquote_plus
Decoded == PercentDecoded(IF qfn = "unquote_plus" THEN PlusToSpace(qs) ELSE qs)

\* C16 as stated: for every byte string the call returns the percent-decoded
\* bytes (each %XY replaced by the byte 16 * X + Y, malformed '%' sequences
\* kept), unquote_plus after replacing '+' by ' '.
C16_DecodesEveryString ==
    qpc = "returned" => qret = Some(Decoded)

\* C16: for every byte string whose percent-decoded bytes are valid UTF-8 the
\* call returns those bytes (each %XY replaced by the byte 16 * X + Y,
\* malformed '%' sequences kept, unquote_plus after replacing '+' by ' ');
\* for every other byte string it returns the error of String::from_utf8.
C16_DecodesOrUtf8Error ==
    qpc = "returned"
      => qret = (IF FromUtf8Ok(Decoded) THEN Some(Decoded) ELSE Nothing)

\* unquote_plus of %2B+%: the escape is '+', the '+' is ' ', the last '%'
\* stays
C16_Witness ==
    /\ qpc = "returned"
    /\ qfn = "unquote_plus"
    /\ qs = <<37, 50, 66, 43, 37>>
    /\ qret = Some(<<43, 32, 37>>)

(***************************************************************************)
(* get_ids: the identifier pairs read out of the course metadata.  The     *)
(* buffer is a byte string as above; String::from_utf8_lossy changes       *)
(* nothing in the ASCII buffers used here.                                 *)
(***************************************************************************)
\* b';'
Semicolon == 59
\* the bytes of s, of .contentId= and of .id=
LetterS == <<115>>
DotContentIdEq == <<46, 99, 111, 110, 116, 101, 110, 116, 73, 100, 61>>
DotIdEq == <<46, 105, 100, 61>>

\* [0-9]
IsDigit(b) == b >= 48 /\ b <= 57

\* [0-9]+ from position p on, greedy: the position behind the digits, p when
\* there is none
RECURSIVE DigitsEnd(_, _)
DigitsEnd(bs, p) ==
    IF p <= Len(bs) /\ IsDigit(bs[p]) THEN DigitsEnd(bs, p + 1) ELSE p

\* the bytes pat stand at position p of bs
HasAt(bs, p, pat) ==
    /\ p >= 1
    /\ p + Len(pat) - 1 <= Len(bs)
    /\ SubSeq(bs, p, p + Len(pat) - 1) = pat

\* the regex with a single digit for the index: s([0-9]) and the rest
MatchAtOneDigit(bs, p) ==
    LET e1 == IF p + 1 <= Len(bs) /\ IsDigit(bs[p + 1]) THEN p + 2 ELSE p + 1
        v1 == e1 + Len(DotContentIdEq)
        e2 == DigitsEnd(bs, v1)
    IN  IF /\ HasAt(bs, p, LetterS)
           /\ e1 > p + 1
           /\ HasAt(bs, e1, DotContentIdEq)
           /\ e2 > v1
           /\ HasAt(bs, e2, <<Semicolon>>)
        THEN <<[end |-> e2 + 1,
                ident |-> SubSeq(bs, p + 1, e1 - 1),
                content_id |-> SubSeq(bs, v1, e2 - 1)]>>
        ELSE <<>>

\* the regex s([0-9]+) .contentId= ([0-9]+) ; matched at position p: the
\* position behind the match and the two captures, or nothing.  A digit run
\* is followed by a byte that is no digit, so the greedy run is the only way
\* to match.
MatchAt(bs, p) ==
    LET e1 == DigitsEnd(bs, p + 1)
        v1 == e1 + Len(DotContentIdEq)
        e2 == DigitsEnd(bs, v1)
    IN  IF /\ HasAt(bs, p, LetterS)
           /\ e1 > p + 1
           /\ HasAt(bs, e1, DotContentIdEq)
           /\ e2 > v1
           /\ HasAt(bs, e2, <<Semicolon>>)
        THEN <<[end |-> e2 + 1,
                ident |-> SubSeq(bs, p + 1, e1 - 1),
                content_id |-> SubSeq(bs, v1, e2 - 1)]>>
        ELSE <<>>

\* REGEX.captures_iter(course_info): the leftmost matches from position p
\* on, none overlapping another
RECURSIVE Captures(_, _)
Captures(bs, p) ==
    IF p > Len(bs) THEN <<>>
    ELSE IF MatchAt(bs, p) # <<>>
         THEN MatchAt(bs, p) \o Captures(bs, MatchAt(bs, p)[1].end)
         ELSE Captures(bs, p + 1)

\* find_iter(course_info, pattern).next(): the first position of pat at or
\* behind p, 0 for None
RECURSIVE Find(_, _, _)
Find(bs, pat, p) ==
    IF p + Len(pat) - 1 > Len(bs) THEN 0
    ELSE IF HasAt(bs, p, pat) THEN p
    ELSE Find(bs, pat, p + 1)

\* format!(s{n}.id=)
section_id_pattern(n) == LetterS \o n \o DotIdEq

\* a section id that runs to the end of the buffer, whatever it holds
SectionIdToEnd(bs, n) ==
    LET start == Find(bs, section_id_pattern(n), 1) + Len(section_id_pattern(n))
    IN  SubSeq(bs, start, Len(bs))

\* the block that computes section_id, once the pattern was found: the bytes
\* behind its first occurrence up to the first b';' behind them, or up to
\* the end of the buffer when there is none (memchr(..).unwrap_or(len))
SectionId(bs, n) ==
    LET start == Find(bs, section_id_pattern(n), 1) + Len(section_id_pattern(n))
        semi == Find(bs, <<Semicolon>>, start)
        stop == IF semi = 0 THEN Len(bs) + 1 ELSE semi
    IN  SubSeq(bs, start, stop - 1)

\* .expect(No section ID found) does not panic for the capture c
HasSectionId(bs, c) == Find(bs, section_id_pattern(c.ident), 1) # 0

\* a get_ids that leaves out the markers without a section id
get_idsSkipping(bs) ==
    LET caps == SelectSeq(Captures(bs, 1), LAMBDA c : HasSectionId(bs, c))
    IN  Some([c \in 1..Len(caps) |->
                 <<caps[c].content_id, SectionId(bs, caps[c].ident)>>])

\* get_ids: Some(the Vec of (content_id, section_id)), Nothing when the
\* expect panics
get_ids(bs) ==
    LET caps == Captures(bs, 1)
    IN  IF \E c \in 1..Len(caps) : ~HasSectionId(bs, caps[c]) THEN Nothing
        ELSE Some([c \in 1..Len(caps) |->
                      <<caps[c].content_id, SectionId(bs, caps[c].ident)>>])

\* The statements the metadata is made of, s7 and s77 being two objects of
\* the answer:
\*   marker     s7.contentId=1;   s77.contentId=2;
\*   id         s7.id=11;         s77.id=12;
\*   null       s7.contentId=null;        (no content: no marker)
\*   cut        s77.id=9                  (an id without its b';')
Marker7 == [kind |-> "marker", k |-> <<55>>, v |-> <<49>>]
Marker77 == [kind |-> "marker", k |-> <<55, 55>>, v |-> <<50>>]
Id7 == [kind |-> "id", k |-> <<55>>, v |-> <<49, 49>>]
Id77 == [kind |-> "id", k |-> <<55, 55>>, v |-> <<49, 50>>]
Null7 == [kind |-> "null", k |-> <<55>>, v |-> <<110, 117, 108, 108>>]
Cut77 == [kind |-> "cut", k |-> <<55, 55>>, v |-> <<57>>]
Statements == {Marker7, Marker77, Id7, Id77, Null7, Cut77}

\* the bytes of one statement
StatementBytes(st) ==
    LetterS \o st.k
      \o (IF st.kind \in {"marker", "null"} THEN DotContentIdEq ELSE DotIdEq)
      \o st.v
      \o (IF st.kind = "cut" THEN <<>> ELSE <<Semicolon>>)

\* the bytes of the answer
RECURSIVE Render(_)
Render(sts) ==
    IF sts = <<>> THEN <<>> ELSE StatementBytes(Head(sts)) \o Render(Tail(sts))

\* most statements in one answer
MaxStmts == 4

InitGetIds ==
    /\ mpc = "get_ids"
    /\ stmts \in SeqsUpTo(Statements, MaxStmts)
    /\ course_info = Render(stmts)
    /\ ids = Nothing
    /\ mresult = None
    /\ ResolveIdle
    /\ DownloadIdle
    /\ QueryIdle

\* let ids = get_ids(&course_info); a panic unwinds main
GetIds ==
    /\ mpc = "get_ids"
    /\ ids' = get_ids(course_info)
    /\ mpc' = IF get_ids(course_info) = Nothing THEN "panicked"
              ELSE "get_pdf_urls"
    /\ UNCHANGED <<stmts, course_info, mresult>>
    /\ UNCHANGED <<rvars, dvars, fvars>>

SpecGetIds == InitGetIds /\ [][GetIds]_vars

(***************************************************************************)
(* Claims about get_ids                                                    *)
(***************************************************************************)
\* the well-formed markers of the answer, in its order
Markers == SelectSeq(stmts, LAMBDA st : st.kind = "marker")

\* the statements of the answer that begin with sK.id= for the index k
Companions(k) ==
    {a \in 1..Len(stmts) : stmts[a].kind \in {"id", "cut"} /\ stmts[a].k = k}

\* every marker has its companion: one statement sK.id=W; of its index, and
\* no other statement sK.id= of that index
EveryMarkerHasCompanion ==
    \A m \in 1..Len(Markers) :
        \E a \in Companions(Markers[m].k) :
            /\ Companions(Markers[m].k) = {a}
            /\ stmts[a].kind = "id"

\* the pairs (V, W) of the markers, in marker order
MarkerPairs ==
    [m \in 1..Len(Markers) |->
        <<Markers[m].v,
          stmts[CHOOSE a \in Companions(Markers[m].k) : TRUE].v>>]

AllDigits(s) == \A n \in 1..Len(s) : IsDigit(s[n])

\* C11: for an answer with N well-formed markers sK.contentId=V; each with its
\* companion sK.id=W; get_ids returns exactly N pairs, in the order of the
\* markers, the pair of a marker being (V, W) with W the value of the
\* companion of the same index K.
C11_PairsInMarkerOrder ==
    (mpc # "get_ids" /\ EveryMarkerHasCompanion)
      => (mpc = "get_pdf_urls" /\ ids = Some(MarkerPairs))

\* two markers of different indexes, companions anywhere: two different pairs
C11_Witness ==
    /\ mpc = "get_pdf_urls"
    /\ EveryMarkerHasCompanion
    /\ Len(Markers) = 2
    /\ ids = Some(MarkerPairs)
    /\ ids[1][1] # ids[1][2]

\* the bytes s stand behind some .id= of the buffer and reach to a b';' or to
\* the end of the buffer
RunsToSemicolon(s) ==
    \E q \in 1..Len(course_info) :
        /\ HasAt(course_info, q, DotIdEq)
        /\ HasAt(course_info, q + Len(DotIdEq), s)
        /\ LET e == q + Len(DotIdEq) + Len(s)
           IN  e = Len(course_info) + 1 \/ course_info[e] = Semicolon

\* the bytes s are the whole run of digits behind some .id= of the buffer
IsDigitRunBehindId(s) ==
    \E q \in 1..Len(course_info) :
        /\ HasAt(course_info, q, DotIdEq)
        /\ s = SubSeq(course_info, q + Len(DotIdEq),
                      DigitsEnd(course_info, q + Len(DotIdEq)) - 1)

MainAnswers ==
    { <<>>,
      <<Marker7>>,
      <<Id7, Marker7>>,
      <<Marker7, Null7, Id7>>,
      <<Id7, Marker7, Marker77>>,
      <<Id77, Marker7, Id7, Marker77>> }

InitMain ==
    /\ mpc = "get_course_info"
    /\ stmts \in MainAnswers
    /\ course_info = <<>>
    /\ ids = Nothing
    /\ mresult = None
    /\ ResolveIdle
    /\ DownloadIdle
    /\ QueryIdle

\* let course_info = get_course_info(&client, &session_id, &tid).await?;
GetCourseInfo(ok) ==
    /\ mpc = "get_course_info"
    /\ IF ok
         THEN /\ course_info' = Render(stmts)
              /\ mpc' = "get_ids"
              /\ mresult' = mresult
         ELSE /\ course_info' = course_info
              /\ mpc' = "failed"
              /\ mresult' = "FetchError"
    /\ UNCHANGED <<stmts, ids>>
    /\ UNCHANGED <<rvars, dvars, fvars>>

\* get_pdf_urls(&client, &session_id, &ids) is called: its channel is made
CallGetPdfUrls ==
    /\ mpc = "get_pdf_urls"
    /\ rpc = "idle"
    /\ nIds' = Len(ids[1])
    /\ rpc' = "loop"
    /\ tx' = TRUE
    /\ rx' = TRUE
    /\ UNCHANGED <<i, result, task, turl, chan, urls>>
    /\ UNCHANGED <<dvars, fvars, mvars>>

\* a main that goes on to download whatever get_pdf_urls returned
ReturnGetPdfUrlsUnchecked ==
    /\ mpc = "get_pdf_urls"
    /\ rpc = "returned"
    /\ mpc' = "download"
    /\ dpc' = "create_dir"
    /\ dlUrls' = urls
    /\ UNCHANGED <<j, dresult, dirExists, dtask, received, buf, pos, files,
                   joined, errors, failedAt>>
    /\ UNCHANGED <<stmts, course_info, ids, mresult>>
    /\ UNCHANGED <<rvars, fvars>>

\* let urls = get_pdf_urls(..).await?; and, on Ok, the call of download
ReturnGetPdfUrls ==
    /\ mpc = "get_pdf_urls"
    /\ rpc = "returned"
    /\ IF result = "Ok"
         THEN /\ mpc' = "download"
              /\ dpc' = "create_dir"
              /\ dlUrls' = urls
              /\ mresult' = mresult
         ELSE /\ mpc' = "failed"
              /\ mresult' = "ResolveError"
              /\ UNCHANGED <<dpc, dlUrls>>
    /\ UNCHANGED <<j, dresult, dirExists, dtask, received, buf, pos, files,
                   joined, errors, failedAt>>
    /\ UNCHANGED <<stmts, course_info, ids>>
    /\ UNCHANGED <<rvars, fvars>>

\* download(..).await?; Ok(())
ReturnDownload ==
    /\ mpc = "download"
    /\ dpc = "returned"
    /\ mpc' = IF dresult = "Ok" THEN "done" ELSE "failed"
    /\ mresult' = IF dresult = "Ok" THEN "Ok" ELSE "DownloadError"
    /\ UNCHANGED <<stmts, course_info, ids>>
    /\ UNCHANGED <<rvars, dvars, fvars>>

NextMain ==
    \/ \E ok \in BOOLEAN : GetCourseInfo(ok)
    \/ GetIds
    \/ CallGetPdfUrls
    \/ NextResolve
    \/ ReturnGetPdfUrls
    \/ NextDownload
    \/ ReturnDownload

SpecMain == InitMain /\ [][NextMain]_vars

(***************************************************************************)
(* Claims about main                                                       *)
(***************************************************************************)
\* some marker of the answer has no statement sK.id= of its index
MarkerWithoutCompanion ==
    \E m \in 1..Len(Markers) : Companions(Markers[m].k) = {}

\* C12: when the fetched buffer holds a marker without any sK.id= companion,
\* get_ids fails as a whole (it panics and returns no pair list, neither
\* leaving the marker out nor returning the other pairs) and main ends
\* without a pair request and without a download.
C12_MissingCompanionAborts ==
    ( /\ MarkerWithoutCompanion
      /\ mpc \notin {"get_course_info", "get_ids"}
      /\ mresult # "FetchError" )
      => /\ mpc = "panicked"
         /\ ids = Nothing
         /\ ResolveIdle
         /\ DownloadIdle

\* the panic on an answer whose first marker has its companion and whose
\* second has none
C12_Witness ==
    /\ mpc = "panicked"
    /\ Len(Markers) = 2
    /\ Companions(Markers[1].k) # {}
    /\ Companions(Markers[2].k) = {}

\* download has begun or has left a trace: it was called, the directory was
\* made, a task was launched or a file exists
DownloadBegun ==
    \/ dpc # "idle"
    \/ dirExists
    \/ \E k \in UrlIdx : dtask[k] # "unspawned"
    \/ \E f \in FileNames : files[f] # NoFile

\* C15: the stages of main run in sequence and a failed stage ends main: a
\* pair request is sent only after the metadata was fetched and get_ids has
\* returned; the directory is made and a download task launched only after
\* get_pdf_urls returned Ok; after a failed metadata fetch nothing was
\* requested or written, and after a failed get_pdf_urls nothing was
\* downloaded.
C15_StagesInSequence ==
    /\ rpc # "idle"
          => (ids # Nothing /\ mpc \notin {"get_course_info", "get_ids"})
    /\ DownloadBegun => (rpc = "returned" /\ result = "Ok")
    /\ mresult = "FetchError"
          => (ids = Nothing /\ ResolveIdle /\ DownloadIdle)
    /\ mresult = "ResolveError" => DownloadIdle

\* main returned Ok after two pairs were resolved and a file was created
C15_Witness ==
    /\ mresult = "Ok"
    /\ Len(ids[1]) = 2
    /\ \E f \in FileNames : files[f] # NoFile

====
